---------------------------- MODULE Spec2Model ----------------------------
(***************************************************************************)
(* swanky_persist: a cache-aside persistence layer.  DataServices          *)
(* (src/src/data_services.rs) composes a MongoDB adapter DB                *)
(* (src/src/db/mongo_db.rs) and a Redis adapter Cache                      *)
(* (src/src/cache/redis_cache.rs).                                         *)
(*                                                                         *)
(* The record type is the DemoStruct of the crate example                  *)
(* (src/src/lib.rs 14-46).  Every await on a client call is one atomic     *)
(* step of the calling task, so concurrent callers interleave between      *)
(* round trips.  Every round trip may fail (connectivity, query).          *)
(*                                                                         *)
(* Values:  Option<T> and Vec<T> are sequences of records (None = << >>,   *)
(* Some(t) = <<t>>), () is << >>.  A DaoResult is                          *)
(* [kind |-> "Ok"|"Err", err |-> error kind or "", val |-> sequence].       *)
(***************************************************************************)
EXTENDS Naturals, Sequences, FiniteSets, TLC

(* ------------------------------ bounds --------------------------------- *)

\* Most documents the collection holds (add is not started beyond it).
MaxDocs == 2

\* Most operations the sequential caller of SeqSpec issues.
MaxOps == 3

\* Seconds that pass in one Tick.
TickSeconds == 1800

(* ------------------------------ inputs --------------------------------- *)

\* The concurrent callers of Spec.
Procs == {"p1", "p2"}

\* The sequential caller of SeqSpec, whose calls hist records.
SeqProcs == {"s"}

Callers == Procs \cup SeqProcs

Ids == {"id_1", "id_2"}

Vals == {"d0", "d1"}

\* Every DemoStruct value that can occur.
AllRecords == [id : Ids, name : Vals, description : Vals]

\* The fields update may set.
UpdateKeys == {"name", "description"}

(* ------------------- DemoStruct: Cacheable, Persistable ----------------- *)

DEMO_STRUCT == "demo_struct"

DEMO_STRUCT_ID_FIELD == "id"

cache_expiry == 3600

cache_id(r) == r.id

cache_path == DEMO_STRUCT

collection_id(r) == r.id

collection_id_field == DEMO_STRUCT_ID_FIELD

collection_name == DEMO_STRUCT

\* The impls lib.rs writes by hand for DemoStruct; the id accessors return
\* the field id.
DemoImpl ==
    [cache |-> <<[cache_path |-> cache_path, cache_expiry |-> cache_expiry,
                  cache_id |-> "id"]>>,
     persist |-> <<[collection_name |-> collection_name,
                    collection_id |-> collection_id_field,
                    collection_id_field |-> collection_id_field]>>]

(* ----------------- #[derive(Cache)] and #[derive(Persist)] --------------- *)
(* A struct definition is [ident, fields, cache, persist]: fields is the     *)
(* sequence of its fields, each [ident, cache_id, persist_id,                *)
(* persist_id_field] with the field attributes as flags; cache is            *)
(* #[cache(path, expiry, id_func)] and persist is                            *)
(* #[persist(name, id_func, id_field)], every option << >> or <<value>>.     *)
(* An id_func is an expression over self: [field |-> f] stands for one that  *)
(* evaluates to the value of field f.                                        *)

\* ident.to_string().to_lowercase() for the struct names in use.
to_lowercase(ident) ==
    CASE ident = "Foo" -> "foo"
      [] ident = "Bar" -> "bar"
      [] OTHER -> ident

\* The names of the fields of a struct.
FieldNames(fields) == {fields[i].ident : i \in 1..Len(fields)}

\* The loop of CacheOpts::id, PersistOpts::id and PersistOpts::id_field over
\* the fields from the i-th on: the first field with the attribute is
\* returned at once; a field named id is remembered and returned at the end.
RECURSIVE field_loop(_, _, _, _)
field_loop(fields, attr, i, id_ident) ==
    IF i > Len(fields) THEN id_ident
    ELSE IF fields[i][attr] THEN <<fields[i].ident>>
    ELSE field_loop(fields, attr, i + 1,
                    IF fields[i].ident = "id" THEN <<fields[i].ident>> ELSE id_ident)

\* CacheOpts::id
CacheOpts_id(opts) == field_loop(opts.fields, "cache_id", 1, << >>)

\* CacheOpts::expiry without the default: an undeclared expiry is 0.
CacheOpts_expiry_NoDefault(opts) ==
    IF opts.cache.expiry # << >> THEN opts.cache.expiry[1] ELSE 0

\* CacheOpts::expiry
CacheOpts_expiry(opts) ==
    IF opts.cache.expiry # << >> THEN opts.cache.expiry[1] ELSE 3600

\* PersistOpts::id
PersistOpts_id(opts) == field_loop(opts.fields, "persist_id", 1, << >>)

\* PersistOpts::id_field looking at the field attributes before the struct
\* attribute.
PersistOpts_id_field_FieldFirst(opts) ==
    IF field_loop(opts.fields, "persist_id_field", 1, << >>) # << >>
    THEN field_loop(opts.fields, "persist_id_field", 1, << >>)
    ELSE opts.persist.id_field

\* PersistOpts::id_field
PersistOpts_id_field(opts) ==
    IF opts.persist.id_field # << >> THEN opts.persist.id_field
    ELSE field_loop(opts.fields, "persist_id_field", 1, << >>)

\* #[derive(Cache)]: the Cacheable impl, << >> when the macro panics or the
\* generated cache_id names a field the struct does not have.
derive_Cache(opts) ==
    LET id == IF opts.cache.id_func # << >> THEN <<opts.cache.id_func[1].field>>
              ELSE CacheOpts_id(opts)
    IN  IF id = << >> \/ id[1] \notin FieldNames(opts.fields) THEN << >>
        ELSE <<[cache_path |-> IF opts.cache.path # << >> THEN opts.cache.path[1]
                               ELSE to_lowercase(opts.ident),
                cache_expiry |-> CacheOpts_expiry(opts),
                cache_id |-> id[1]]>>

\* #[derive(Persist)]: the Persistable impl, << >> when the generated
\* collection_id names a field the struct does not have.
derive_Persist(opts) ==
    LET id == IF opts.persist.id_func # << >> THEN opts.persist.id_func[1].field
              ELSE IF PersistOpts_id(opts) # << >> THEN PersistOpts_id(opts)[1]
              ELSE "id"
    IN  IF id \notin FieldNames(opts.fields) THEN << >>
        ELSE <<[collection_name |-> IF opts.persist.name # << >> THEN opts.persist.name[1]
                                    ELSE to_lowercase(opts.ident),
                collection_id |-> id,
                collection_id_field |-> IF PersistOpts_id_field(opts) # << >>
                                        THEN PersistOpts_id_field(opts)[1]
                                        ELSE "id"]>>

(* ------------------------------ results -------------------------------- *)

Ok(v) == [kind |-> "Ok", err |-> "", val |-> v]

Err(e) == [kind |-> "Err", err |-> e, val |-> << >>]

NoResult == [kind |-> "none", err |-> "", val |-> << >>]

(* --------------------------- serde_json -------------------------------- *)

\* serde_json::to_string of a String: the JSON string literal, quotes included.
to_string(v) == "\"" \o v \o "\""

\* serde_json::to_vec of a DemoStruct: its JSON object text.
to_vec(r) ==
    "{\"id\":" \o to_string(r.id) \o ",\"name\":" \o to_string(r.name)
        \o ",\"description\":" \o to_string(r.description) \o "}"

\* serde_json::from_slice::<DemoStruct>: the record the bytes encode, or an
\* error when they encode none.  Under DaoResult's Box<dyn Error> the ? operator
\* boxes the serde_json error itself.
from_slice(bytes) ==
    IF \E r \in AllRecords : to_vec(r) = bytes
    THEN Ok(<<CHOOSE r \in AllRecords : to_vec(r) = bytes>>)
    ELSE Err("SerdeJsonError")

(* ------------------------- the document store -------------------------- *)

\* Indices of the documents of collection st whose field f equals v.
Matches(st, f, v) == {i \in 1..Len(st) : st[i][f] = v}

Min(S) == CHOOSE i \in S : \A j \in S : i <= j

\* find_one with the filter built on the name field instead of the given one.
find_one_ByName(st, f, v) ==
    IF Matches(st, "name", v) = {} THEN << >> ELSE <<st[Min(Matches(st, "name", v))]>>

\* find_one(filter {f: v}): the first matching document in natural order.
find_one(st, f, v) ==
    IF Matches(st, f, v) = {} THEN << >> ELSE <<st[Min(Matches(st, f, v))]>>

\* insert_one into a collection with a unique index on the id field: a
\* document whose id is taken is not inserted.
insert_one_Unique(st, doc) ==
    IF Matches(st, "id", doc.id) = {} THEN Append(st, doc) ELSE st

\* insert_one(doc): the collection has no unique index on the id field.
insert_one(st, doc) == Append(st, doc)

\* update_one setting the field in every document of the collection.
update_one_Every(st, f, v, key, value) ==
    IF Matches(st, f, v) = {} THEN st
    ELSE [n \in DOMAIN st |-> [st[n] EXCEPT ![key] = value]]

\* update_one replacing the whole document by the patch {id, key: value}, the
\* other field reset.
update_one_Replace(st, f, v, key, value) ==
    IF Matches(st, f, v) = {} THEN st
    ELSE [st EXCEPT ![Min(Matches(st, f, v))] =
            [[id |-> @.id, name |-> "", description |-> ""] EXCEPT ![key] = value]]

\* update_one({f: v}, {"$set": {key: value}}): sets one field of the first match.
update_one(st, f, v, key, value) ==
    IF Matches(st, f, v) = {} THEN st
    ELSE [st EXCEPT ![Min(Matches(st, f, v))] = [@ EXCEPT ![key] = value]]

\* delete_one({f: v}): removes the first match, if any.
delete_one(st, f, v) ==
    IF Matches(st, f, v) = {} THEN st
    ELSE LET k == Min(Matches(st, f, v))
         IN  SubSeq(st, 1, k - 1) \o SubSeq(st, k + 1, Len(st))

\* find(filter): every matching document, in natural order.
find(st, filter) ==
    LET ok(d) == \A f \in DOMAIN filter : d[f] = filter[f]
        F[i \in 0..Len(st)] ==
            IF i = 0 THEN << >>
            ELSE IF ok(st[i]) THEN Append(F[i - 1], st[i]) ELSE F[i - 1]
    IN  F[Len(st)]

(* ------------------------- the key-value cache ------------------------- *)

\* format!("{}:{}", T::cache_path(), id)
cache_key(id) == cache_path \o ":" \o id

CacheKeys == {cache_key(i) : i \in Ids}

\* An absent key.
Nil == [shape |-> "Nil", data |-> "", ttl |-> 0]

\* SET key data KEEPTTL: an entry that exists keeps its remaining lifetime.
set_expire_KeepTtl(c, key, data, seconds) ==
    [c EXCEPT ![key] = [shape |-> "Data", data |-> data,
                        ttl |-> IF c[key].shape = "Data" THEN c[key].ttl ELSE seconds]]

\* SET key data NX: a key that exists keeps its value and its lifetime.
set_expire_IfAbsent(c, key, data, seconds) ==
    IF c[key].shape = "Data" THEN c
    ELSE [c EXCEPT ![key] = [shape |-> "Data", data |-> data, ttl |-> seconds]]

\* MULTI; SET key data; EXPIRE key seconds; EXEC.
set_expire(c, key, data, seconds) ==
    [c EXCEPT ![key] = [shape |-> "Data", data |-> data, ttl |-> seconds]]

\* DEL of a key built without the namespace: the entry stays.
del_WrongKey(c, key) == c

\* DEL key.
del(c, key) == [c EXCEPT ![key] = Nil]

\* The cache after dt seconds when keys are never removed: a lifetime that is
\* used up stays at 0 and the key stays readable.
elapse_NoExpiry(c, dt) ==
    [k \in DOMAIN c |->
        IF c[k].shape = "Nil" THEN Nil
        ELSE IF c[k].ttl <= dt THEN [c[k] EXCEPT !.ttl = 0]
        ELSE [c[k] EXCEPT !.ttl = @ - dt]]

\* The cache after dt seconds: lifetimes shrink, and a key whose lifetime is
\* used up is gone.
elapse(c, dt) ==
    [k \in DOMAIN c |->
        IF c[k].shape = "Nil" THEN Nil
        ELSE IF c[k].ttl <= dt THEN Nil
        ELSE [c[k] EXCEPT !.ttl = @ - dt]]


\* What a GET may answer: a redis::Value.  Nil, the bytes of a record, bytes
\* that encode no record, or one of the other variants.
Responses ==
    {Nil}
        \cup {[shape |-> "Data", data |-> to_vec(r), ttl |-> cache_expiry] :
                r \in [id : Ids, name : {"d0"}, description : {"d0"}]}
        \cup {[shape |-> "Data", data |-> "not json", ttl |-> cache_expiry]}
        \cup {[shape |-> sh, data |-> "", ttl |-> cache_expiry] :
                sh \in {"Int", "Bulk", "Status", "Okay"}}

\* The match of Cache::fetch with every other response shape taken for a miss.
fetch_response_OtherIsMiss(cache_response) ==
    IF cache_response.shape = "Data" THEN from_slice(cache_response.data)
    ELSE Ok(<< >>)

\* The match of Cache::fetch on the response of GET: Value::Nil is Ok(None),
\* Value::Data is deserialized, anything else is a GeneralError.
fetch_response(cache_response) ==
    IF cache_response.shape = "Nil" THEN Ok(<< >>)
    ELSE IF cache_response.shape = "Data" THEN from_slice(cache_response.data)
    ELSE Err("GeneralError")

(* ------------------------------ state ---------------------------------- *)

VARIABLES
    store,   \* the collection: a sequence of documents in natural order
    cache,   \* the Redis keyspace: key -> Nil or [shape, data, ttl]
    pc,      \* per caller: "idle" or the round trip it is about to make
    op,      \* per caller: the DataServices method it is in
    arg,     \* per caller: the method's arguments
    local,   \* per caller: the value bound by the last store call (result, t, object)
    calls,   \* per caller: the round trips of the current call, in order
    ret,     \* per caller: the DaoResult of its last call
    hist,    \* the calls of the sequential caller, with the state before and after
    input,   \* the struct definition given to #[derive(Cache, Persist)], if any
    output   \* the Cacheable and Persistable impls of the record type

vars == <<store, cache, pc, op, arg, local, calls, ret, hist, input, output>>

Ops ==
    {"add", "add_cached", "fetch_by_id", "fetch", "fetch_by_id_cached",
     "update", "update_cached", "delete", "delete_cached"}

NoArg == [value |-> << >>, id |-> "", key |-> << >>, fval |-> << >>, ukey |-> "", uval |-> ""]

\* The argument lists of method o over the ids I, the descriptions D of added
\* records, the update keys K, the update values V and the fetch filters F.
Args(o, I, D, K, V, F) ==
    CASE o \in {"add", "add_cached"} ->
            {[NoArg EXCEPT !.value = <<r>>] :
                r \in [id : I, name : {"d0"}, description : D]}
      [] o \in {"fetch_by_id", "fetch_by_id_cached", "delete", "delete_cached"} ->
            {[NoArg EXCEPT !.id = i] : i \in I}
      [] o \in {"update", "update_cached"} ->
            {[NoArg EXCEPT !.id = i, !.ukey = k, !.uval = v] :
                i \in I, k \in K, v \in V}
      [] o = "fetch" ->
            {[NoArg EXCEPT !.key = f[1], !.fval = f[2]] : f \in F}

\* What the concurrent callers of Spec pass: they work on one id and one field.
ConcArgs(o) ==
    Args(o, {"id_1"}, Vals, {"description"}, Vals,
         {<< << >>, << >> >>, << <<"description">>, <<"d0">> >>})

\* fetch takes two options: a key without a value, a value without a key.
HalfFilters == {<< <<"description">>, << >> >>, << << >>, <<"d1">> >>}

\* update takes any field name as its key: the id field too.
IdUpdates ==
    {[NoArg EXCEPT !.id = "id_1", !.ukey = collection_id_field, !.uval = "id_2"]}

\* What the sequential caller of SeqSpec passes.
SeqArgs(o) ==
    Args(o, {"id_1"}, {"d1"}, UpdateKeys, {"d1"},
         {<< << >>, << >> >>, << <<"description">>, <<"d1">> >>} \cup HalfFilters)
    \cup (IF o = "update" THEN IdUpdates ELSE {})

\* The argument lists caller p may pass to method o.
Inputs(p, o) == IF p \in SeqProcs THEN SeqArgs(o) ELSE ConcArgs(o)

\* The collection outlives the process: it starts empty or with one record
\* left by an earlier run.
InitStores ==
    {<< >>,
     <<[id |-> "id_1", name |-> "d0", description |-> "d0"]>>,
     <<[id |-> "id_2", name |-> "d0", description |-> "d0"]>>}

Init ==
    /\ store \in InitStores
    /\ cache = [k \in CacheKeys |-> Nil]
    /\ pc = [p \in Callers |-> "idle"]
    /\ op = [p \in Callers |-> "none"]
    /\ arg = [p \in Callers |-> NoArg]
    /\ local = [p \in Callers |-> << >>]
    /\ calls = [p \in Callers |-> << >>]
    /\ ret = [p \in Callers |-> NoResult]
    /\ hist = << >>
    /\ input = << >>
    /\ output = DemoImpl

(* ----------------------- DataServices control flow --------------------- *)

\* Entry with delete_cached evicting the cache before the store is touched.
Entry_CacheFirst(o) ==
    CASE o \in {"add", "add_cached"} -> "db.add.fetch_by_id"
      [] o = "fetch_by_id" -> "db.fetch_by_id"
      [] o = "fetch" -> "db.fetch"
      [] o = "fetch_by_id_cached" -> "cache.fetch"
      [] o \in {"update", "update_cached"} -> "db.update.update_one"
      [] o = "delete" -> "db.delete"
      [] o = "delete_cached" -> "cache.delete"

\* Entry with fetch_by_id_cached reading the store without trying the cache.
Entry_StoreFirst(o) ==
    CASE o \in {"add", "add_cached"} -> "db.add.fetch_by_id"
      [] o \in {"fetch_by_id", "fetch_by_id_cached"} -> "db.fetch_by_id"
      [] o = "fetch" -> "db.fetch"
      [] o \in {"update", "update_cached"} -> "db.update.update_one"
      [] o \in {"delete", "delete_cached"} -> "db.delete"

\* The first round trip of each DataServices method.
Entry(o) ==
    CASE o \in {"add", "add_cached"} -> "db.add.fetch_by_id"
      [] o = "fetch_by_id" -> "db.fetch_by_id"
      [] o = "fetch" -> "db.fetch"
      [] o = "fetch_by_id_cached" -> "cache.fetch"
      [] o \in {"update", "update_cached"} -> "db.update.update_one"
      [] o \in {"delete", "delete_cached"} -> "db.delete"

\* Callers inside an add: each may still insert one document.
Adding == {q \in Callers : pc[q] # "idle" /\ op[q] \in {"add", "add_cached"}}

\* hist after the sequential caller's call of o(a): the call with the store
\* and cache it starts from; overlap says whether a call of another caller is
\* in flight at some moment of this call.
Called(o, a) ==
    Append(hist, [op |-> o, arg |-> a, done |-> FALSE, ret |-> NoResult, calls |-> << >>,
                  ticks |-> 0,
                  overlap |-> \E q \in Procs : pc[q] # "idle",
                  preStore |-> store, preCache |-> cache,
                  postStore |-> store, postCache |-> cache])

\* hist after the sequential caller's return: the result, the round trips and
\* the store and cache it leaves.
Returned(r, cs, st, c) ==
    [hist EXCEPT ![Len(hist)] =
        [@ EXCEPT !.done = TRUE, !.ret = r, !.calls = cs, !.postStore = st, !.postCache = c]]

\* One round trip of caller p: it moves to `to`, binds `loc`, has result r
\* (NoResult while the call goes on), and leaves the store st and the cache c.
Step(p, call, ok, to, loc, r, st, c) ==
    /\ pc' = [pc EXCEPT ![p] = to]
    /\ local' = [local EXCEPT ![p] = loc]
    /\ ret' = [ret EXCEPT ![p] = r]
    /\ calls' = [calls EXCEPT ![p] = Append(@, [call |-> call, ok |-> ok])]
    /\ store' = st
    /\ cache' = c
    /\ hist' = IF p \in SeqProcs /\ to = "idle"
               THEN Returned(r, Append(calls[p], [call |-> call, ok |-> ok]), st, c)
               ELSE hist
    /\ UNCHANGED <<op, arg, input, output>>

\* A caller starts DataServices method o.
Call(p) ==
    /\ pc[p] = "idle"
    /\ \E o \in Ops : \E a \in Inputs(p, o) :
        /\ o \in {"add", "add_cached"} => Len(store) + Cardinality(Adding) < MaxDocs
        /\ p \in SeqProcs => Len(hist) < MaxOps
        /\ pc' = [pc EXCEPT ![p] = Entry(o)]
        /\ op' = [op EXCEPT ![p] = o]
        /\ arg' = [arg EXCEPT ![p] = a]
        /\ hist' = IF p \in SeqProcs THEN Called(o, a)
                   ELSE IF hist # << >> /\ ~hist[Len(hist)].done
                   THEN [hist EXCEPT ![Len(hist)].overlap = TRUE]
                   ELSE hist
    /\ local' = [local EXCEPT ![p] = << >>]
    /\ calls' = [calls EXCEPT ![p] = << >>]
    /\ ret' = [ret EXCEPT ![p] = NoResult]
    /\ UNCHANGED <<store, cache, input, output>>

(* ------------------------------- DB ------------------------------------ *)
(* In every round trip, ok says whether the client call itself succeeds.    *)

\* DbAddCheck without the IdExists branch: a found record does not stop add.
DbAddCheck_NoCheck(p, ok) ==
    /\ pc[p] = "db.add.fetch_by_id"
    /\ IF ~ok
       THEN Step(p, "db.find_one", FALSE, "idle", << >>, Err("DatabaseError"), store, cache)
       ELSE Step(p, "db.find_one", TRUE, "db.add.insert_one", << >>, NoResult, store, cache)

\* DB::add, the existence check: self.fetch_by_id(&value.collection_id()).
DbAddCheck(p, ok) ==
    /\ pc[p] = "db.add.fetch_by_id"
    /\ LET value == arg[p].value[1]
           found == find_one(store, collection_id_field, collection_id(value))
       IN  IF ~ok
           THEN Step(p, "db.find_one", FALSE, "idle", << >>, Err("DatabaseError"), store, cache)
           ELSE IF found # << >>
           THEN Step(p, "db.find_one", TRUE, "idle", << >>, Err("IdExists"), store, cache)
           ELSE Step(p, "db.find_one", TRUE, "db.add.insert_one", << >>, NoResult, store, cache)

\* DbAddInsert with add_cached going on to cache.put although the insert failed.
DbAddInsert_CacheOnFail(p, ok) ==
    /\ pc[p] = "db.add.insert_one"
    /\ LET value == arg[p].value[1]
       IN  IF ~ok /\ op[p] = "add"
           THEN Step(p, "db.insert_one", FALSE, "idle", << >>, Err("DatabaseError"), store, cache)
           ELSE IF ~ok
           THEN Step(p, "db.insert_one", FALSE, "cache.put", <<value>>, NoResult, store, cache)
           ELSE IF op[p] = "add"
           THEN Step(p, "db.insert_one", TRUE, "idle", << >>, Ok(<<value>>),
                     insert_one(store, value), cache)
           ELSE Step(p, "db.insert_one", TRUE, "cache.put", <<value>>, NoResult,
                     insert_one(store, value), cache)

\* DB::add, the insert: collection.insert_one(&value); Ok(value).  add returns
\* it, add_cached goes on to cache.put(&result).
DbAddInsert(p, ok) ==
    /\ pc[p] = "db.add.insert_one"
    /\ LET value == arg[p].value[1]
       IN  IF ~ok
           THEN Step(p, "db.insert_one", FALSE, "idle", << >>, Err("DatabaseError"), store, cache)
           ELSE IF op[p] = "add"
           THEN Step(p, "db.insert_one", TRUE, "idle", << >>, Ok(<<value>>),
                     insert_one(store, value), cache)
           ELSE Step(p, "db.insert_one", TRUE, "cache.put", <<value>>, NoResult,
                     insert_one(store, value), cache)

\* DbFetchById with fetch_by_id_cached returning the found record without
\* putting it into the cache.
DbFetchById_NoPut(p, ok) ==
    /\ pc[p] = "db.fetch_by_id"
    /\ IF ~ok
       THEN Step(p, "db.find_one", FALSE, "idle", << >>, Err("DatabaseError"), store, cache)
       ELSE Step(p, "db.find_one", TRUE, "idle", << >>,
                 Ok(find_one(store, collection_id_field, arg[p].id)), store, cache)

\* DB::fetch_by_id, called by fetch_by_id and, after a cache miss, by
\* fetch_by_id_cached, which puts a found record into the cache.
DbFetchById(p, ok) ==
    /\ pc[p] = "db.fetch_by_id"
    /\ LET result == find_one(store, collection_id_field, arg[p].id)
       IN  IF ~ok
           THEN Step(p, "db.find_one", FALSE, "idle", << >>, Err("DatabaseError"), store, cache)
           ELSE IF op[p] = "fetch_by_id" \/ result = << >>
           THEN Step(p, "db.find_one", TRUE, "idle", << >>, Ok(result), store, cache)
           ELSE Step(p, "db.find_one", TRUE, "cache.put", result, NoResult, store, cache)

\* The filter document DB::fetch builds from its two options.
fetch_filter(key, value) ==
    IF key # << >> /\ value # << >>
    THEN (key[1] :> to_string(value[1]))
    ELSE << >>

\* DB::fetch and DataServices::fetch: find(filter), collected; DB::fetch gives
\* None for an empty result and DataServices::fetch turns None into an empty Vec.
DbFetch(p, ok) ==
    /\ pc[p] = "db.fetch"
    /\ IF ~ok
       THEN Step(p, "db.find", FALSE, "idle", << >>, Err("DatabaseError"), store, cache)
       ELSE Step(p, "db.find", TRUE, "idle", << >>,
                 Ok(find(store, fetch_filter(arg[p].key, arg[p].fval))), store, cache)

\* DB::update, the write: update_one(filter, {"$set": {key: value}}).
DbUpdateSet(p, ok) ==
    /\ pc[p] = "db.update.update_one"
    /\ IF ~ok
       THEN Step(p, "db.update_one", FALSE, "idle", << >>, Err("DatabaseError"), store, cache)
       ELSE Step(p, "db.update_one", TRUE, "db.update.fetch_by_id", << >>, NoResult,
                 update_one(store, collection_id_field, arg[p].id, arg[p].ukey, arg[p].uval),
                 cache)

\* DbUpdateReread with update_cached evicting the cache entry when the
\* re-read finds no record.
DbUpdateReread_EvictOnMiss(p, ok) ==
    /\ pc[p] = "db.update.fetch_by_id"
    /\ LET object == find_one(store, collection_id_field, arg[p].id)
       IN  IF ~ok
           THEN Step(p, "db.find_one", FALSE, "idle", << >>, Err("DatabaseError"), store, cache)
           ELSE IF op[p] = "update"
           THEN Step(p, "db.find_one", TRUE, "idle", << >>, Ok(object), store, cache)
           ELSE IF object = << >>
           THEN Step(p, "db.find_one", TRUE, "cache.delete", << >>, NoResult, store, cache)
           ELSE Step(p, "db.find_one", TRUE, "cache.put", object, NoResult, store, cache)

\* DB::update, the re-read: self.fetch_by_id(id).  update returns it,
\* update_cached puts a found record into the cache.
DbUpdateReread(p, ok) ==
    /\ pc[p] = "db.update.fetch_by_id"
    /\ LET object == find_one(store, collection_id_field, arg[p].id)
       IN  IF ~ok
           THEN Step(p, "db.find_one", FALSE, "idle", << >>, Err("DatabaseError"), store, cache)
           ELSE IF op[p] = "update" \/ object = << >>
           THEN Step(p, "db.find_one", TRUE, "idle", << >>, Ok(object), store, cache)
           ELSE Step(p, "db.find_one", TRUE, "cache.put", object, NoResult, store, cache)

\* DbDelete with the uncached delete evicting the cache entry as well.
DbDelete_EvictsCache(p, ok) ==
    /\ pc[p] = "db.delete"
    /\ IF ~ok
       THEN Step(p, "db.delete_one", FALSE, "idle", << >>, Err("DatabaseError"), store, cache)
       ELSE IF op[p] = "delete"
       THEN Step(p, "db.delete_one", TRUE, "idle", << >>, Ok(<< >>),
                 delete_one(store, collection_id_field, arg[p].id),
                 del(cache, cache_key(arg[p].id)))
       ELSE Step(p, "db.delete_one", TRUE, "cache.delete", << >>, NoResult,
                 delete_one(store, collection_id_field, arg[p].id), cache)

\* DbDelete reporting an error when delete_one deleted nothing.
DbDelete_NotFoundIsError(p, ok) ==
    /\ pc[p] = "db.delete"
    /\ IF ~ok
       THEN Step(p, "db.delete_one", FALSE, "idle", << >>, Err("DatabaseError"), store, cache)
       ELSE IF find_one(store, collection_id_field, arg[p].id) = << >>
       THEN Step(p, "db.delete_one", TRUE, "idle", << >>, Err("GeneralError"), store, cache)
       ELSE IF op[p] = "delete"
       THEN Step(p, "db.delete_one", TRUE, "idle", << >>, Ok(<< >>),
                 delete_one(store, collection_id_field, arg[p].id), cache)
       ELSE Step(p, "db.delete_one", TRUE, "cache.delete", << >>, NoResult,
                 delete_one(store, collection_id_field, arg[p].id), cache)

\* DB::delete: delete_one(filter).  delete returns, delete_cached goes on to
\* cache.delete.
DbDelete(p, ok) ==
    /\ pc[p] = "db.delete"
    /\ IF ~ok
       THEN Step(p, "db.delete_one", FALSE, "idle", << >>, Err("DatabaseError"), store, cache)
       ELSE IF op[p] = "delete"
       THEN Step(p, "db.delete_one", TRUE, "idle", << >>, Ok(<< >>),
                 delete_one(store, collection_id_field, arg[p].id), cache)
       ELSE Step(p, "db.delete_one", TRUE, "cache.delete", << >>, NoResult,
                 delete_one(store, collection_id_field, arg[p].id), cache)

(* ------------------------------ Cache ---------------------------------- *)

\* CachePut with a compensating store delete when the cache write fails.
CachePut_Rollback(p, ok) ==
    /\ pc[p] = "cache.put"
    /\ LET value == local[p][1]
       IN  IF ~ok
           THEN Step(p, "cache.set_expire", FALSE, "idle", << >>, Err("RedisError"),
                     delete_one(store, collection_id_field, collection_id(value)), cache)
           ELSE Step(p, "cache.set_expire", TRUE, "idle", << >>, Ok(local[p]), store,
                     set_expire(cache, cache_key(cache_id(value)), to_vec(value), cache_expiry))

\* CachePut sending SET and EXPIRE as two commands: the first round trip
\* writes the value with no lifetime set (ttl 0), the second sets the lifetime.
CachePut_SetThenExpire(p, ok) ==
    /\ pc[p] = "cache.put"
    /\ LET value == local[p][1]
           key == cache_key(cache_id(value))
       IN  IF ~ok
           THEN Step(p, "cache.set_expire", FALSE, "idle", << >>, Err("RedisError"), store, cache)
           ELSE IF Len(local[p]) = 1
           THEN Step(p, "cache.set", TRUE, "cache.put", <<value, value>>, NoResult, store,
                     [cache EXCEPT ![key] = [shape |-> "Data", data |-> to_vec(value), ttl |-> 0]])
           ELSE Step(p, "cache.set_expire", TRUE, "idle", << >>, Ok(<<value>>), store,
                     set_expire(cache, key, to_vec(value), cache_expiry))

\* Cache::put(&value): one atomic SET+EXPIRE pipeline.  add_cached returns
\* Ok(result); fetch_by_id_cached and update_cached return Ok(Some(..)).
CachePut(p, ok) ==
    /\ pc[p] = "cache.put"
    /\ LET value == local[p][1]
       IN  IF ~ok
           THEN Step(p, "cache.set_expire", FALSE, "idle", << >>, Err("RedisError"), store, cache)
           ELSE Step(p, "cache.set_expire", TRUE, "idle", << >>, Ok(local[p]), store,
                     set_expire(cache, cache_key(cache_id(value)), to_vec(value), cache_expiry))

\* CacheFetch falling back to the store when the cache read fails.
CacheFetch_FallbackOnError(p, ok) ==
    /\ pc[p] = "cache.fetch"
    /\ LET cache_response == cache[cache_key(arg[p].id)]
       IN  IF ~ok
           THEN Step(p, "cache.get", FALSE, "db.fetch_by_id", << >>, NoResult, store, cache)
           ELSE IF fetch_response(cache_response) = Ok(<< >>)
           THEN Step(p, "cache.get", TRUE, "db.fetch_by_id", << >>, NoResult, store, cache)
           ELSE Step(p, "cache.get", TRUE, "idle", << >>,
                     fetch_response(cache_response), store, cache)

\* CacheFetch treating an absent key like an unexpected response shape.
CacheFetch_NilIsError(p, ok) ==
    /\ pc[p] = "cache.fetch"
    /\ LET cache_response == cache[cache_key(arg[p].id)]
       IN  IF ~ok
           THEN Step(p, "cache.get", FALSE, "idle", << >>, Err("RedisError"), store, cache)
           ELSE IF cache_response.shape = "Data"
           THEN Step(p, "cache.get", TRUE, "idle", << >>,
                     from_slice(cache_response.data), store, cache)
           ELSE Step(p, "cache.get", TRUE, "idle", << >>, Err("GeneralError"), store, cache)

\* Cache::fetch(id) in fetch_by_id_cached: GET key.  Nil is a miss and the
\* store is read next; Data is deserialized and returned; any other shape is
\* a GeneralError.
CacheFetch(p, ok) ==
    /\ pc[p] = "cache.fetch"
    /\ LET cache_response == cache[cache_key(arg[p].id)]
       IN  IF ~ok
           THEN Step(p, "cache.get", FALSE, "idle", << >>, Err("RedisError"), store, cache)
           ELSE IF fetch_response(cache_response) = Ok(<< >>)
           THEN Step(p, "cache.get", TRUE, "db.fetch_by_id", << >>, NoResult, store, cache)
           ELSE Step(p, "cache.get", TRUE, "idle", << >>,
                     fetch_response(cache_response), store, cache)

\* Cache::fetch(id) called on the adapter itself: GET key and the match on
\* its response.
Cache_fetch(p, id, ok) ==
    /\ pc[p] = "idle"
    /\ op' = [op EXCEPT ![p] = "Cache::fetch"]
    /\ arg' = [arg EXCEPT ![p] = [NoArg EXCEPT !.id = id]]
    /\ calls' = [calls EXCEPT ![p] = <<[call |-> "cache.get", ok |-> ok]>>]
    /\ ret' = [ret EXCEPT ![p] =
                IF ok THEN fetch_response(cache[cache_key(id)]) ELSE Err("RedisError")]
    /\ UNCHANGED <<store, cache, pc, local, hist, input, output>>

\* CacheDelete returning success without sending DEL.
CacheDelete_NoDel(p, ok) ==
    /\ pc[p] = "cache.delete"
    /\ IF ~ok
       THEN Step(p, "cache.del", FALSE, "idle", << >>, Err("RedisError"), store, cache)
       ELSE Step(p, "cache.del", TRUE, "idle", << >>, Ok(<< >>), store, cache)

\* Cache::delete(id) in delete_cached: DEL key.
CacheDelete(p, ok) ==
    /\ pc[p] = "cache.delete"
    /\ IF ~ok
       THEN Step(p, "cache.del", FALSE, "idle", << >>, Err("RedisError"), store, cache)
       ELSE Step(p, "cache.del", TRUE, "idle", << >>, Ok(<< >>), store,
                 del(cache, cache_key(arg[p].id)))

\* Time passes in Redis: lifetimes run down.  hist counts the ticks that
\* pass during a call of the sequential caller, up to a full lifetime.
Tick ==
    /\ \E k \in DOMAIN cache : cache[k].shape # "Nil"
    /\ cache' = elapse(cache, TickSeconds)
    /\ hist' = IF hist # << >> /\ ~hist[Len(hist)].done
                    /\ hist[Len(hist)].ticks * TickSeconds < cache_expiry
               THEN [hist EXCEPT ![Len(hist)].ticks = @ + 1]
               ELSE hist
    /\ UNCHANGED <<store, pc, op, arg, local, calls, ret, input, output>>

(* ------------------------- the specifications -------------------------- *)

\* Concurrent callers working on one id; any round trip may fail.
Next ==
    \/ \E p \in Procs : Call(p)
    \/ \E p \in Procs : \E ok \in BOOLEAN : DbAddCheck(p, ok)
    \/ \E p \in Procs : \E ok \in BOOLEAN : DbAddInsert(p, ok)
    \/ \E p \in Procs : \E ok \in BOOLEAN : DbFetchById(p, ok)
    \/ \E p \in Procs : \E ok \in BOOLEAN : DbFetch(p, ok)
    \/ \E p \in Procs : \E ok \in BOOLEAN : DbUpdateSet(p, ok)
    \/ \E p \in Procs : \E ok \in BOOLEAN : DbUpdateReread(p, ok)
    \/ \E p \in Procs : \E ok \in BOOLEAN : DbDelete(p, ok)
    \/ \E p \in Procs : \E ok \in BOOLEAN : CachePut(p, ok)
    \/ \E p \in Procs : \E ok \in BOOLEAN : CacheFetch(p, ok)
    \/ \E p \in Procs : \E ok \in BOOLEAN : CacheDelete(p, ok)
    \/ Tick

Spec == Init /\ [][Next]_vars

\* One caller issuing at most MaxOps calls one after the other, every round
\* trip succeeding.
SeqNext ==
    \/ \E p \in SeqProcs : Call(p)
    \/ \E p \in SeqProcs : DbAddCheck(p, TRUE)
    \/ \E p \in SeqProcs : DbAddInsert(p, TRUE)
    \/ \E p \in SeqProcs : DbFetchById(p, TRUE)
    \/ \E p \in SeqProcs : DbFetch(p, TRUE)
    \/ \E p \in SeqProcs : DbUpdateSet(p, TRUE)
    \/ \E p \in SeqProcs : DbUpdateReread(p, TRUE)
    \/ \E p \in SeqProcs : DbDelete(p, TRUE)
    \/ \E p \in SeqProcs : CachePut(p, TRUE)
    \/ \E p \in SeqProcs : CacheFetch(p, TRUE)
    \/ \E p \in SeqProcs : CacheDelete(p, TRUE)
    \/ Tick

SeqSpec == Init /\ [][SeqNext]_vars

\* The methods the sequential caller of MixSpec issues.
SeqMixOps == {"delete_cached", "fetch_by_id_cached"}

\* The methods the second caller of MixSpec has in flight.
InFlightOps == {"fetch_by_id_cached", "update_cached"}

\* A caller starts one of the methods O.
CallOf(p, O) == Call(p) /\ op'[p] \in O

\* The sequential caller deleting and reading through the cache a record an
\* earlier run left in the store,
\* beside one concurrent caller that reads and updates through the cache;
\* every round trip succeeds and no entry lives long enough to expire.
MixNext ==
    \/ \E p \in SeqProcs : CallOf(p, SeqMixOps)
    \/ \E p \in {"p1"} : CallOf(p, InFlightOps)
    \/ \E p \in SeqProcs \cup {"p1"} : DbFetchById(p, TRUE)
    \/ \E p \in SeqProcs \cup {"p1"} : DbUpdateSet(p, TRUE)
    \/ \E p \in SeqProcs \cup {"p1"} : DbUpdateReread(p, TRUE)
    \/ \E p \in SeqProcs \cup {"p1"} : DbDelete(p, TRUE)
    \/ \E p \in SeqProcs \cup {"p1"} : CachePut(p, TRUE)
    \/ \E p \in SeqProcs \cup {"p1"} : CacheFetch(p, TRUE)
    \/ \E p \in SeqProcs \cup {"p1"} : CacheDelete(p, TRUE)

MixSpec == Init /\ [][MixNext]_vars

\* The cache adapter on its own: the key of each id answers GET with any
\* response.
AdapterInit ==
    /\ store = << >>
    /\ cache \in [CacheKeys -> Responses]
    /\ pc = [p \in Callers |-> "idle"]
    /\ op = [p \in Callers |-> "none"]
    /\ arg = [p \in Callers |-> NoArg]
    /\ local = [p \in Callers |-> << >>]
    /\ calls = [p \in Callers |-> << >>]
    /\ ret = [p \in Callers |-> NoResult]
    /\ hist = << >>
    /\ input = << >>
    /\ output = DemoImpl

AdapterNext == \E p \in SeqProcs : \E id \in Ids : \E ok \in BOOLEAN : Cache_fetch(p, id, ok)

AdapterSpec == AdapterInit /\ [][AdapterNext]_vars

(* ---------------------- deriving a record type ------------------------- *)

\* The struct fields the derive inputs are made of, with every combination of
\* the field attributes.
AllFields ==
    [ident : {"id", "my_id"}, cache_id : BOOLEAN, persist_id : BOOLEAN,
     persist_id_field : BOOLEAN]

\* The struct definitions given to the derive macros: one or two fields.
Structs ==
    [ident : {"Foo"},
     fields : {<<f>> : f \in AllFields}
                \cup {fs \in AllFields \X AllFields : fs[1].ident # fs[2].ident},
     cache : [path : {<< >>, <<"foo-path">>},
              expiry : {<< >>, <<360>>, <<60>>},
              id_func : {<< >>, <<[field |-> "my_id"]>>}],
     persist : [name : {<< >>, <<"foo-collection">>},
                id_func : {<< >>, <<[field |-> "my_id"]>>},
                id_field : {<< >>, <<"val">>}]]

\* The values of a struct: every field holds a string.
Instances(opts) == [FieldNames(opts.fields) -> {"a", "b"}]

\* The cache keys of the derived types.
DeriveKeys == {path \o ":" \o v : path \in {"foo", "foo-path"}, v \in {"a", "b"}}

\* serde_json::to_vec of a struct value: the JSON object of its fields from
\* the i-th on, in declaration order.
RECURSIVE to_vec_fields(_, _, _)
to_vec_fields(fields, value, i) ==
    IF i > Len(fields) THEN "}"
    ELSE (IF i = 1 THEN "{" ELSE ",") \o to_string(fields[i].ident) \o ":"
            \o to_string(value[fields[i].ident]) \o to_vec_fields(fields, value, i + 1)

\* A struct definition is chosen; nothing is derived and nothing is cached.
DeriveInit ==
    /\ input \in Structs
    /\ output = [cache |-> << >>, persist |-> << >>]
    /\ store = << >>
    /\ cache = [k \in DeriveKeys |-> Nil]
    /\ pc = [p \in Callers |-> "idle"]
    /\ op = [p \in Callers |-> "none"]
    /\ arg = [p \in Callers |-> NoArg]
    /\ local = [p \in Callers |-> << >>]
    /\ calls = [p \in Callers |-> << >>]
    /\ ret = [p \in Callers |-> NoResult]
    /\ hist = << >>

\* The Cache derive macro expands on the struct.
DeriveCache ==
    /\ output.cache = << >>
    /\ derive_Cache(input) # << >>
    /\ output' = [output EXCEPT !.cache = derive_Cache(input)]
    /\ UNCHANGED <<store, cache, pc, op, arg, local, calls, ret, hist, input>>

\* The Persist derive macro expands on the struct.
DerivePersist ==
    /\ output.persist = << >>
    /\ derive_Persist(input) # << >>
    /\ output' = [output EXCEPT !.persist = derive_Persist(input)]
    /\ UNCHANGED <<store, cache, pc, op, arg, local, calls, ret, hist, input>>

\* Cache::put(&value) of a value of the derived type T: the key is
\* T::cache_path():value.cache_id() and the lifetime T::cache_expiry().
Cache_put(p, value) ==
    /\ pc[p] = "idle"
    /\ output.cache # << >>
    /\ LET T == output.cache[1]
       IN  cache' = set_expire(cache, T.cache_path \o ":" \o value[T.cache_id],
                               to_vec_fields(input.fields, value, 1), T.cache_expiry)
    /\ op' = [op EXCEPT ![p] = "Cache::put"]
    /\ arg' = [arg EXCEPT ![p] = [NoArg EXCEPT !.value = <<value>>]]
    /\ calls' = [calls EXCEPT ![p] = <<[call |-> "cache.set_expire", ok |-> TRUE]>>]
    /\ ret' = [ret EXCEPT ![p] = Ok(<< >>)]
    /\ UNCHANGED <<store, pc, local, hist, input, output>>

\* The key Cache::fetch::<T>(id) and Cache::delete::<T>(id) build for the
\* derived type T: T::cache_path():id.
Cache_key_of(T, id) == T.cache_path \o ":" \o id

DeriveNext ==
    \/ DeriveCache
    \/ DerivePersist
    \/ \E p \in SeqProcs : \E value \in Instances(input) : Cache_put(p, value)

DeriveSpec == DeriveInit /\ [][DeriveNext]_vars

(* ------------------------------ claims -------------------------------- *)

CachedWrites == {"add_cached", "update_cached", "delete_cached"}

Uncached == {"add", "fetch_by_id", "fetch", "update", "delete"}

CacheCalls == {"cache.set_expire", "cache.get", "cache.del"}

\* The store call that commits a cached write.
StoreWriteOf(o) ==
    CASE o = "add_cached" -> "db.insert_one"
      [] o = "update_cached" -> "db.update_one"
      [] o = "delete_cached" -> "db.delete_one"

Last(cs) == cs[Len(cs)]

\* Caller p makes a round trip in this step.
Acting(p) == pc[p] # "idle" /\ calls'[p] # calls[p]

\* The id a call is about.
RequestId(p) ==
    IF op[p] \in {"add", "add_cached"} THEN collection_id(arg[p].value[1]) ELSE arg[p].id

\* The caller's round trips so far include its successful store write.
StoreStepOk(p) ==
    \E i \in 1..Len(calls[p]) :
        calls[p][i].ok /\ calls[p][i].call = StoreWriteOf(op[p])

\* A cached write touches the cache only after its store write succeeded.
C1_Order ==
    \A p \in Procs :
        (/\ Acting(p)
         /\ op[p] \in CachedWrites
         /\ cache' # cache \/ Last(calls'[p]).call \in CacheCalls)
        => StoreStepOk(p)

\* A cached write whose store step failed, or found the id taken, made no
\* cache call.
C1_FailedStoreNoCache ==
    \A p \in Procs :
        (/\ op[p] \in CachedWrites
         /\ \/ ret[p] = Err("IdExists")
            \/ \E i \in 1..Len(calls[p]) :
                ~calls[p][i].ok /\ calls[p][i].call \notin CacheCalls)
        => \A i \in 1..Len(calls[p]) : calls[p][i].call \notin CacheCalls

\* C1: on every write path of DataServices (add_cached, update_cached,
\* delete_cached) the store step comes before the cache step, and when the
\* store step fails (add failing with IdExists included) the operation does
\* not touch the cache.
C1_StoreBeforeCache == [][C1_Order]_vars /\ []C1_FailedStoreNoCache

\* An add_cached refused with IdExists that made no cache call, beside a
\* delete_cached that deleted from the store and then from the cache.
C1_Witness ==
    \E p, q \in Procs :
        /\ op[p] = "add_cached" /\ ret[p] = Err("IdExists")
        /\ calls[p] = <<[call |-> "db.find_one", ok |-> TRUE]>>
        /\ op[q] = "delete_cached" /\ ret[q] = Ok(<< >>)
        /\ calls[q] = <<[call |-> "db.delete_one", ok |-> TRUE],
                        [call |-> "cache.del", ok |-> TRUE]>>

\* Caller p's put writes key k in this step.
Put(p, k) ==
    /\ Acting(p)
    /\ Last(calls'[p]) = [call |-> "cache.set_expire", ok |-> TRUE]
    /\ cache'[k].shape = "Data"
    /\ cache' = [cache EXCEPT ![k] = cache'[k]]
    /\ cache' # cache \/ k = cache_key(cache_id(local[p][1]))

\* The store holds record r under its id.
Stored(st, r) == \E i \in 1..Len(st) : st[i] = r

\* C2 as stated: in every reachable state, concurrent calls on the same id
\* included, a cache entry holds a value that is in the store under that id at
\* the moment the entry is written.
C2_InStoreAtWrite ==
    [][\A p \in Procs : \A k \in CacheKeys :
        Put(p, k) =>
            \E i \in 1..Len(store) :
                cache_key(cache_id(store[i])) = k /\ to_vec(store[i]) = cache'[k].data]_vars

\* An entry gets a new value or a longer lifetime in this step.
Written(k) ==
    /\ cache'[k].shape = "Data"
    /\ cache'[k] # cache[k]
    /\ ~(cache[k].shape = "Data" /\ cache'[k].data = cache[k].data
            /\ cache'[k].ttl < cache[k].ttl)

\* C2 amended: every cache entry is written by a put of the value that the
\* writing operation's own store step inserted or read under that id, so the
\* value was in the store when that store step completed; a concurrent caller
\* may have changed or removed it before the put.
C2_DerivedFromStore ==
    [][/\ \A k \in CacheKeys :
            Written(k) =>
                \E p \in Procs :
                    /\ Acting(p) /\ pc[p] = "cache.put"
                    /\ k = cache_key(cache_id(local[p][1]))
                    /\ cache'[k].data = to_vec(local[p][1])
       /\ \A p \in Procs :
            (pc[p] # "cache.put" /\ pc'[p] = "cache.put") =>
                /\ Stored(store', local'[p][1])
                /\ collection_id(local'[p][1]) = RequestId(p)]_vars

\* A read-through that cached what it read from the store, while the store no
\* longer holds a record of that id.
C2_Witness ==
    \E p \in Procs :
        /\ op[p] = "fetch_by_id_cached" /\ pc[p] = "idle" /\ ret[p].kind = "Ok"
        /\ Last(calls[p]) = [call |-> "cache.set_expire", ok |-> TRUE]
        /\ cache[cache_key(arg[p].id)].data = to_vec(ret[p].val[1])
        /\ find_one(store, collection_id_field, arg[p].id) = << >>

(* ------------- claims about one caller's calls, one by one -------------- *)

\* The calls hist[i+1..j-1] are all uncached store methods.
OnlyUncachedBetween(i, j) == \A k \in (i + 1)..(j - 1) : hist[k].op \in Uncached

\* Call h found a cache entry under key k that outlives the call.
Live(h, k) == h.preCache[k].shape = "Data" /\ h.preCache[k].ttl > h.ticks * TickSeconds

\* Call h is a fetch_by_id_cached(id) that has returned.
FetchCachedOf(h, id) == h.op = "fetch_by_id_cached" /\ h.done /\ h.arg.id = id

CacheHit == <<[call |-> "cache.get", ok |-> TRUE]>>

\* C3: after a successful add_cached(R), fetch_by_id_cached(R.id) returns R
\* from the cache alone, also when the store record was deleted or changed by
\* uncached calls in between, as long as the entry has not expired.
C3_ServedFromCache ==
    \A i, j \in 1..Len(hist) :
        (/\ i < j
         /\ hist[i].op = "add_cached" /\ hist[i].done /\ hist[i].ret.kind = "Ok"
         /\ FetchCachedOf(hist[j], collection_id(hist[i].arg.value[1]))
         /\ OnlyUncachedBetween(i, j)
         /\ Live(hist[j], cache_key(hist[j].arg.id)))
        => /\ hist[j].ret = Ok(hist[i].arg.value)
           /\ hist[j].calls = CacheHit

\* add_cached(R), delete(R.id), then fetch_by_id_cached(R.id) giving R while
\* the store holds no such record.
C3_Witness ==
    \E i, j \in 1..Len(hist) :
        /\ i + 1 < j
        /\ hist[i].op = "add_cached" /\ hist[i].ret.kind = "Ok"
        /\ hist[i + 1].op = "delete" /\ hist[i + 1].ret.kind = "Ok"
        /\ FetchCachedOf(hist[j], collection_id(hist[i].arg.value[1]))
        /\ find_one(hist[j].preStore, collection_id_field, hist[j].arg.id) = << >>
        /\ hist[j].ret = Ok(hist[i].arg.value)

\* Call j is a read-through: a fetch_by_id_cached that found no cache entry
\* and a store record.
ColdFetch(j) ==
    /\ hist[j].op = "fetch_by_id_cached" /\ hist[j].done
    /\ hist[j].preCache[cache_key(hist[j].arg.id)].shape = "Nil"
    /\ find_one(hist[j].preStore, collection_id_field, hist[j].arg.id) # << >>

\* The read-through returns the store value and leaves it in the cache.
Populates(j) ==
    /\ hist[j].ret = Ok(find_one(hist[j].preStore, collection_id_field, hist[j].arg.id))
    /\ hist[j].postCache[cache_key(hist[j].arg.id)].shape = "Data"
    /\ from_slice(hist[j].postCache[cache_key(hist[j].arg.id)].data) = hist[j].ret

\* C4 as stated: a read-through returns the store value and leaves the cache
\* populated, and a second fetch_by_id_cached returns the same value even after
\* the store record is deleted in between.
C4_SecondFetchSame ==
    \A j, m \in 1..Len(hist) :
        (/\ j < m /\ ColdFetch(j)
         /\ FetchCachedOf(hist[m], hist[j].arg.id)
         /\ OnlyUncachedBetween(j, m))
        => Populates(j) /\ hist[m].ret = hist[j].ret

\* C4 amended: a read-through returns the store value and leaves the cache
\* populated, and a second fetch_by_id_cached that finds the entry not yet
\* expired returns the same value from the cache, even after the store record
\* is deleted in between.
C4_ReadThrough ==
    /\ \A j \in 1..Len(hist) : ColdFetch(j) => Populates(j)
    /\ \A j, m \in 1..Len(hist) :
        (/\ j < m /\ ColdFetch(j)
         /\ FetchCachedOf(hist[m], hist[j].arg.id)
         /\ OnlyUncachedBetween(j, m)
         /\ Live(hist[m], cache_key(hist[m].arg.id)))
        => hist[m].ret = hist[j].ret /\ hist[m].calls = CacheHit

\* A read-through, a delete of the store record, and a second
\* fetch_by_id_cached that still returns the record.
C4_Witness ==
    \E j \in 1..Len(hist) :
        /\ j + 2 <= Len(hist)
        /\ ColdFetch(j)
        /\ hist[j + 1].op = "delete" /\ hist[j + 1].arg.id = hist[j].arg.id
        /\ FetchCachedOf(hist[j + 2], hist[j].arg.id)
        /\ find_one(hist[j + 2].preStore, collection_id_field, hist[j].arg.id) = << >>
        /\ hist[j + 2].ret = hist[j].ret
        /\ hist[j + 2].ret.val # << >>

Fields == {"id", "name", "description"}

\* Record r is record b with field key set to value and nothing else changed.
SetOf(r, b, key, value) ==
    /\ r[key] = value
    /\ \A f \in Fields \ {key} : r[f] = b[f]

\* Call i is an update_cached of a record the store holds.
UpdateCachedOfExisting(i) ==
    /\ hist[i].op = "update_cached" /\ hist[i].done
    /\ find_one(hist[i].preStore, collection_id_field, hist[i].arg.id) # << >>

CacheStepFails(p) ==
    /\ Acting(p)
    /\ op[p] \in CachedWrites
    /\ pc[p] \in {"cache.put", "cache.delete"}
    /\ ~Last(calls'[p]).ok

\* C7: no rollback.  When the cache step of add_cached, update_cached or
\* delete_cached fails after its store step succeeded, the operation ends with
\* an error and leaves the store as the store step left it.
C7_NoRollback ==
    [][\A p \in Procs :
        CacheStepFails(p) =>
            /\ StoreStepOk(p)
            /\ pc'[p] = "idle" /\ ret'[p].kind = "Err"
            /\ store' = store /\ cache' = cache]_vars

\* An add_cached that returned the cache error: the record is in the store and
\* not in the cache.
C7_Witness ==
    \E p \in Procs :
        /\ op[p] = "add_cached" /\ pc[p] = "idle" /\ ret[p] = Err("RedisError")
        /\ calls[p] = <<[call |-> "db.find_one", ok |-> TRUE],
                        [call |-> "db.insert_one", ok |-> TRUE],
                        [call |-> "cache.set_expire", ok |-> FALSE]>>
        /\ Stored(store, arg[p].value[1])
        /\ cache[cache_key(cache_id(arg[p].value[1]))].shape = "Nil"

\* Call i is an add or add_cached of an id the store already holds.
AddOfExisting(i) ==
    /\ hist[i].op \in {"add", "add_cached"} /\ hist[i].done
    /\ find_one(hist[i].preStore, collection_id_field,
                collection_id(hist[i].arg.value[1])) # << >>

\* C8: add(R) of an id that is already stored fails with IdExists, inserts
\* nothing and leaves the stored record as it was; so does a second add after
\* a first one.
C8_AddExisting ==
    /\ \A i \in 1..Len(hist) :
        AddOfExisting(i) =>
            /\ hist[i].ret = Err("IdExists")
            /\ hist[i].calls = <<[call |-> "db.find_one", ok |-> TRUE]>>
            /\ hist[i].postStore = hist[i].preStore
    /\ \A i \in 1..Len(hist) :
        (/\ i < Len(hist)
         /\ hist[i].op = "add" /\ hist[i].ret.kind = "Ok"
         /\ hist[i + 1].op = "add" /\ hist[i + 1].done
         /\ collection_id(hist[i + 1].arg.value[1]) = collection_id(hist[i].arg.value[1]))
        => /\ hist[i + 1].ret = Err("IdExists")
           /\ find_one(hist[i + 1].postStore, collection_id_field,
                       collection_id(hist[i].arg.value[1])) = hist[i].arg.value

\* A first add that stored its record, then, the record changed by an update,
\* a second add of that id refused with IdExists, the store left as it was.
C8_Witness ==
    \E i, j \in 1..Len(hist) :
        /\ i < j
        /\ hist[i].op = "add" /\ hist[i].ret.kind = "Ok"
        /\ AddOfExisting(j) /\ hist[j].op = "add"
        /\ collection_id(hist[j].arg.value[1]) = collection_id(hist[i].arg.value[1])
        /\ ~Stored(hist[j].preStore, hist[j].arg.value[1])
        /\ hist[j].ret = Err("IdExists")
        /\ hist[j].postStore = hist[j].preStore

\* The insert of caller p succeeds in this step.
Inserts(p) ==
    /\ Acting(p)
    /\ pc[p] = "db.add.insert_one"
    /\ Last(calls'[p]) = [call |-> "db.insert_one", ok |-> TRUE]

\* The number of stored records with the given id.
Count(st, id) == Cardinality(Matches(st, collection_id_field, id))

\* C9: the existence check and the insert of add are separate steps.  A caller
\* that passed the check inserts whatever was stored in the meantime: its
\* insert adds a record and does not end with IdExists, so two concurrent adds
\* of one id can both insert.
C9_InsertUnchecked ==
    [][\A p \in Procs :
        Inserts(p) =>
            /\ ret'[p].err # "IdExists"
            /\ Count(store', RequestId(p)) = Count(store, RequestId(p)) + 1]_vars

\* Two adds of the same id that both returned Ok, and two stored records with
\* that id.
C9_Witness ==
    \E p, q \in Procs :
        /\ p # q
        /\ op[p] = "add" /\ op[q] = "add"
        /\ ret[p].kind = "Ok" /\ ret[q].kind = "Ok"
        /\ RequestId(p) = RequestId(q)
        /\ Count(store, RequestId(p)) = 2

\* C10: add(R) of an id that is not stored returns R, and a following
\* fetch_by_id(R.id) returns R.
C10_AddThenFetch ==
    \A i \in 1..Len(hist) :
        (/\ hist[i].op = "add" /\ hist[i].done
         /\ find_one(hist[i].preStore, collection_id_field,
                     collection_id(hist[i].arg.value[1])) = << >>)
        => /\ hist[i].ret = Ok(hist[i].arg.value)
           /\ (/\ i < Len(hist)
               /\ hist[i + 1].op = "fetch_by_id" /\ hist[i + 1].done
               /\ hist[i + 1].arg.id = collection_id(hist[i].arg.value[1]))
              => hist[i + 1].ret = Ok(hist[i].arg.value)

\* An add of a new id followed by a fetch_by_id that returns the record.
C10_Witness ==
    \E i \in 1..Len(hist) :
        /\ i < Len(hist)
        /\ hist[i].op = "add" /\ hist[i].ret = Ok(hist[i].arg.value)
        /\ hist[i + 1].op = "fetch_by_id"
        /\ hist[i + 1].ret = Ok(hist[i].arg.value)

\* Call i is an update_cached of an id the store does not hold.
UpdateCachedOfAbsent(i) ==
    /\ hist[i].op = "update_cached" /\ hist[i].done
    /\ find_one(hist[i].preStore, collection_id_field, hist[i].arg.id) = << >>

\* C11: update_cached(id, field, value) for an id absent from the store
\* returns empty, not an error, makes no cache call and leaves the cache
\* untouched: the cache it leaves is the cache it found, aged by the time the
\* call took, so no entry is created, changed, removed or given a new lifetime.
C11_UpdateAbsent ==
    \A i \in 1..Len(hist) :
        UpdateCachedOfAbsent(i) =>
            /\ hist[i].ret = Ok(<< >>)
            /\ hist[i].calls = <<[call |-> "db.update_one", ok |-> TRUE],
                                 [call |-> "db.find_one", ok |-> TRUE]>>
            /\ hist[i].postStore = hist[i].preStore
            /\ hist[i].postCache = elapse(hist[i].preCache, hist[i].ticks * TickSeconds)

\* An update_cached of an id that is cached with a run-down lifetime and no
\* longer stored: it returns empty and the entry keeps its value and lifetime.
C11_Witness ==
    \E i \in 1..Len(hist) :
        /\ UpdateCachedOfAbsent(i)
        /\ hist[i].ticks = 0
        /\ hist[i].preCache[cache_key(hist[i].arg.id)].shape = "Data"
        /\ hist[i].preCache[cache_key(hist[i].arg.id)].ttl < cache_expiry
        /\ hist[i].postCache = hist[i].preCache
        /\ hist[i].ret = Ok(<< >>)

\* Call h has returned Ok after a successful put.
EndsWithPut(h) ==
    /\ h.done /\ h.ret.kind = "Ok" /\ h.calls # << >>
    /\ Last(h.calls) = [call |-> "cache.set_expire", ok |-> TRUE]

\* C12: a successful update_cached leaves the cache entry with the full
\* lifetime of the type, not with what was left of the lifetime of an earlier
\* put, and so does every other successful put of the key (add_cached, the
\* read-through of fetch_by_id_cached).
C12_PutResetsTtl ==
    \A i \in 1..Len(hist) :
        EndsWithPut(hist[i]) =>
            LET e == hist[i].postCache[cache_key(cache_id(hist[i].ret.val[1]))]
            IN  /\ e.shape = "Data"
                /\ e.data = to_vec(hist[i].ret.val[1])
                /\ e.ttl = cache_expiry

\* An update_cached that found the entry with a run-down lifetime and left it
\* with the full one.
C12_Witness ==
    \E i \in 1..Len(hist) :
        /\ hist[i].op = "update_cached" /\ EndsWithPut(hist[i])
        /\ hist[i].preCache[cache_key(hist[i].arg.id)].shape = "Data"
        /\ hist[i].preCache[cache_key(hist[i].arg.id)].ttl < cache_expiry
        /\ hist[i].postCache[cache_key(hist[i].arg.id)].ttl = cache_expiry

\* Time passes in this step: no caller moves and the cache changes.
TimePasses ==
    /\ \A p \in Callers : pc'[p] = pc[p] /\ calls'[p] = calls[p]
    /\ cache' # cache

\* Some caller's put writes key k in this step.
RePut(k) ==
    \E p \in Callers :
        /\ Acting(p) /\ pc[p] = "cache.put"
        /\ k = cache_key(cache_id(local[p][1]))

\* An entry that is not re-put keeps its value and never gains lifetime; when
\* TickSeconds pass it loses that much lifetime, and it is absent once its
\* lifetime is used up.
C13_RunsDown ==
    \A k \in CacheKeys :
        (cache[k].shape = "Data" /\ ~RePut(k)) =>
            /\ \/ cache'[k].shape = "Nil"
               \/ /\ cache'[k].shape = "Data"
                  /\ cache'[k].data = cache[k].data
                  /\ cache'[k].ttl <= cache[k].ttl
            /\ TimePasses =>
                IF cache[k].ttl <= TickSeconds
                THEN cache'[k].shape = "Nil"
                ELSE cache'[k] = [cache[k] EXCEPT !.ttl = @ - TickSeconds]

\* No entry has more than the type's lifetime left, or none at all.
C13_Bounded ==
    \A k \in CacheKeys :
        cache[k].shape = "Data" => cache[k].ttl > 0 /\ cache[k].ttl <= cache_expiry

\* A fetch_by_id_cached that finds the key absent reads the store and returns
\* what the store holds.
C13_FallsThrough ==
    \A j \in 1..Len(hist) :
        (/\ hist[j].op = "fetch_by_id_cached" /\ hist[j].done
         /\ hist[j].preCache[cache_key(hist[j].arg.id)].shape = "Nil")
        => /\ Len(hist[j].calls) >= 2
           /\ hist[j].calls[1] = [call |-> "cache.get", ok |-> TRUE]
           /\ hist[j].calls[2] = [call |-> "db.find_one", ok |-> TRUE]
           /\ hist[j].ret = Ok(find_one(hist[j].preStore, collection_id_field, hist[j].arg.id))

\* C13: a cache entry that is not re-put is absent once its lifetime has run
\* out; from then on the cache read misses and fetch_by_id_cached reads the
\* store, so a value the cache holds against the store is served for at most
\* one lifetime after the last put.
C13_ExpiryBoundsStaleness ==
    [][C13_RunsDown]_vars /\ []C13_Bounded /\ []C13_FallsThrough

\* add_cached(R), an uncached update that makes the store differ from the
\* cached R, and, the entry having expired, a fetch_by_id_cached that reads
\* the store and returns the updated record.
C13_Witness ==
    \E i \in 1..Len(hist) :
        /\ i + 2 <= Len(hist)
        /\ hist[i].op = "add_cached" /\ EndsWithPut(hist[i])
        /\ hist[i + 1].op = "update" /\ hist[i + 1].done
        /\ hist[i + 1].arg.id = collection_id(hist[i].arg.value[1])
        /\ hist[i + 1].postCache[cache_key(hist[i + 1].arg.id)].shape = "Data"
        /\ FetchCachedOf(hist[i + 2], hist[i + 1].arg.id)
        /\ hist[i + 2].preCache[cache_key(hist[i + 1].arg.id)].shape = "Nil"
        /\ hist[i + 2].ret = hist[i + 1].ret
        /\ hist[i + 2].ret # Ok(hist[i].arg.value)
        /\ hist[i + 2].ret.val # << >>

(* ------------------- claims about the cache adapter -------------------- *)

\* Caller p's round trip to the cache in this step is a put that succeeds.
PutOk(p) ==
    /\ Acting(p) /\ pc[p] = "cache.put"
    /\ Last(calls'[p]).ok

\* A put writes the value and the lifetime of its key in the one step, and
\* no other step makes a key exist or gives it a value.
C14_PutSetsBoth ==
    /\ \A p \in Procs :
        PutOk(p) =>
            cache' = [cache EXCEPT ![cache_key(cache_id(local[p][1]))] =
                        [shape |-> "Data", data |-> to_vec(local[p][1]), ttl |-> cache_expiry]]
    /\ \A k \in CacheKeys :
        (/\ cache'[k].shape = "Data"
         /\ cache[k].shape = "Nil" \/ cache'[k].data # cache[k].data)
        => \E p \in Procs : PutOk(p) /\ k = cache_key(cache_id(local[p][1]))

\* Every key that exists has a lifetime, the configured one or what is left
\* of it, and that is what a caller about to read the key finds.
C14_KeyHasTtl ==
    /\ \A k \in CacheKeys :
        cache[k].shape = "Data" => cache[k].ttl \in 1..cache_expiry
    /\ \A q \in Procs :
        (pc[q] = "cache.fetch" /\ cache[cache_key(arg[q].id)].shape = "Data")
        => /\ cache[cache_key(arg[q].id)].ttl \in 1..cache_expiry
           /\ from_slice(cache[cache_key(arg[q].id)].data).kind = "Ok"

\* C14: Cache::put sets the value and the expiry of a key as one atomic step:
\* in no reachable state, and at no point a concurrent cache fetch can observe,
\* does a key written by put exist without the configured lifetime.
C14_PutAtomic == [][C14_PutSetsBoth]_vars /\ []C14_KeyHasTtl

\* One caller's add_cached has just put the key while another caller is about
\* to read it: the key has its value and the full lifetime.
C14_Witness ==
    \E p, q \in Procs :
        /\ p # q
        /\ op[p] = "add_cached" /\ pc[p] = "idle" /\ ret[p].kind = "Ok"
        /\ Last(calls[p]) = [call |-> "cache.set_expire", ok |-> TRUE]
        /\ pc[q] = "cache.fetch" /\ arg[q].id = RequestId(p)
        /\ cache[cache_key(arg[q].id)] =
                [shape |-> "Data", data |-> to_vec(arg[p].value[1]), ttl |-> cache_expiry]

\* The store call h starts from holds no record with id.
AbsentFromStore(h, id) == find_one(h.preStore, collection_id_field, id) = << >>

\* No record call h starts from has the field equal to the value of h's
\* filter; with no filter, the store is empty.
NothingMatches(h) ==
    IF h.arg.key # << >> /\ h.arg.fval # << >>
    THEN Matches(h.preStore, h.arg.key[1], h.arg.fval[1]) = {}
    ELSE h.preStore = << >>

\* C15: not found is not an error on any read path.  fetch_by_id of an absent
\* id and fetch with nothing to match return empty; fetch_by_id_cached of an
\* id absent from cache and store gets the miss from the cache read, reads the
\* store, returns empty and leaves store and cache as they were.
C15_NotFoundIsEmpty ==
    \A i \in 1..Len(hist) :
        LET h == hist[i]
        IN  /\ (h.op = "fetch_by_id" /\ h.done /\ AbsentFromStore(h, h.arg.id))
                => h.ret = Ok(<< >>)
            /\ (h.op = "fetch" /\ h.done /\ NothingMatches(h))
                => h.ret = Ok(<< >>)
            /\ (/\ h.op = "fetch_by_id_cached" /\ h.done
                /\ AbsentFromStore(h, h.arg.id)
                /\ h.preCache[cache_key(h.arg.id)].shape = "Nil")
                => /\ h.ret = Ok(<< >>)
                   /\ h.calls = <<[call |-> "cache.get", ok |-> TRUE],
                                  [call |-> "db.find_one", ok |-> TRUE]>>
                   /\ h.postStore = h.preStore
                   /\ h.postCache = elapse(h.preCache, h.ticks * TickSeconds)

\* On a store that holds one record: a fetch_by_id of another id, a fetch on
\* a value no record has, and a fetch_by_id_cached of an id neither cached
\* nor stored, all returning empty.
C15_Witness ==
    \E i, j, m \in 1..Len(hist) :
        /\ hist[i].op = "fetch_by_id" /\ hist[i].ret = Ok(<< >>)
        /\ hist[i].preStore # << >>
        /\ hist[j].op = "fetch" /\ hist[j].arg.key # << >> /\ hist[j].preStore # << >>
        /\ hist[j].done /\ NothingMatches(hist[j]) /\ hist[j].ret = Ok(<< >>)
        /\ hist[m].op = "fetch_by_id_cached" /\ hist[m].ret = Ok(<< >>)
        /\ hist[m].done /\ Len(hist[m].calls) = 2
        /\ hist[m].postCache = hist[m].preCache

\* The records of st whose field f equals v, in natural order.
WithField(st, f, v) == find(st, (f :> v))

\* C16: fetch(filterField, filterValue) with both arguments given returns
\* exactly the stored records whose field filterField equals filterValue,
\* string values included, and fetch with no filter returns every stored
\* record.
C16_FetchByFilter ==
    \A i \in 1..Len(hist) :
        (hist[i].op = "fetch" /\ hist[i].done) =>
            IF hist[i].arg.key # << >> /\ hist[i].arg.fval # << >>
            THEN hist[i].ret =
                    Ok(WithField(hist[i].preStore, hist[i].arg.key[1], hist[i].arg.fval[1]))
            ELSE hist[i].ret = Ok(hist[i].preStore)

\* The records of st with an id other than the given one.
Without(st, id) ==
    LET Other(r) == r[collection_id_field] # id
    IN  SelectSeq(st, Other)

\* Call h is a delete(id) that has returned.
DeleteOf(h) == h.op = "delete" /\ h.done

Fetched(p) == op[p] = "Cache::fetch" /\ Last(calls[p]).ok

\* What Cache::fetch returned for the response the key gives.
C18_Mapped ==
    \A p \in SeqProcs :
        Fetched(p) =>
            LET cache_response == cache[cache_key(arg[p].id)]
            IN  /\ cache_response.shape = "Nil" => ret[p] = Ok(<< >>)
                /\ \A r \in AllRecords :
                    (cache_response.shape = "Data" /\ cache_response.data = to_vec(r))
                    => ret[p] = Ok(<<r>>)
                /\ cache_response.shape \notin {"Nil", "Data"} => ret[p] = Err("GeneralError")

\* C18: Cache::fetch maps the nil response to an empty result, a data
\* response to the deserialized record and any other response shape to a
\* GeneralError, and leaves the cache content as it is in all three cases.
C18_FetchMapsResponse == [][cache' = cache]_vars /\ []C18_Mapped

\* A Cache::fetch of a key that answers with an integer: GeneralError.
C18_Witness ==
    \E p \in SeqProcs :
        /\ Fetched(p)
        /\ cache[cache_key(arg[p].id)].shape = "Int"
        /\ ret[p] = Err("GeneralError")

(* ------------------- claims about the derive macros -------------------- *)

\* The Cacheable impl the struct got.
CacheImpl == output.cache[1]

\* C19: a record type that declares no cache expiry has cache_expiry() =
\* 3600 and one that declares expiry = n has cache_expiry() = n; that is the
\* lifetime put gives the entries of the type.
C19_Expiry ==
    output.cache # << >> =>
        /\ input.cache.expiry = << >> => CacheImpl.cache_expiry = 3600
        /\ \A n \in {360, 60} : input.cache.expiry = <<n>> => CacheImpl.cache_expiry = n
        /\ \A k \in DeriveKeys :
            cache[k].shape = "Data" =>
                cache[k].ttl = IF input.cache.expiry = << >> THEN 3600
                               ELSE input.cache.expiry[1]

\* A type derived with no expiry declared, and an entry put for it with 3600
\* seconds to live.
C19_Witness ==
    /\ output.cache # << >>
    /\ input.cache.expiry = << >>
    /\ \E p \in SeqProcs :
        /\ op[p] = "Cache::put"
        /\ cache[CacheImpl.cache_path \o ":" \o arg[p].value[1][CacheImpl.cache_id]].ttl = 3600

\* The Persistable impl the struct got.
PersistImpl == output.persist[1]

\* The fields of the struct that carry the attribute.
Marked(attr) == {i \in 1..Len(input.fields) : input.fields[i][attr]}

\* The field an id accessor returns by the rule of the claim: the one the
\* id_func evaluates to, else the first field marked with attr, else the
\* field named id.
IdRule(id_func, attr) ==
    IF id_func # << >> THEN id_func[1].field
    ELSE IF Marked(attr) # {} THEN input.fields[Min(Marked(attr))].ident
    ELSE "id"

\* C20: the instance id of a derived type is the id_func expression when one
\* is given, else the value of the field marked id, else the value of the
\* field named id, and the cache key of a value is built from it; the id
\* field name is the struct attribute id_field when given, else the field
\* marked id_field, else "id".
C20_IdResolution ==
    /\ output.cache # << >> =>
        /\ CacheImpl.cache_id = IdRule(input.cache.id_func, "cache_id")
        /\ \A p \in SeqProcs :
            op[p] = "Cache::put" =>
                LET value == arg[p].value[1]
                    key == CacheImpl.cache_path \o ":"
                            \o value[IdRule(input.cache.id_func, "cache_id")]
                IN  /\ cache[key].shape = "Data"
                    /\ cache[key].data = to_vec_fields(input.fields, value, 1)
    /\ output.persist # << >> =>
        /\ PersistImpl.collection_id = IdRule(input.persist.id_func, "persist_id")
        /\ PersistImpl.collection_id_field =
                IF input.persist.id_field # << >> THEN input.persist.id_field[1]
                ELSE IF Marked("persist_id_field") # {}
                THEN input.fields[Min(Marked("persist_id_field"))].ident
                ELSE "id"

\* A struct with the fields id and my_id, my_id marked as the id of both
\* derives and as the id field, with no id_func and no struct-level id_field:
\* both ids are my_id, and a value is cached under the value of my_id.
C20_Witness ==
    /\ output.cache # << >> /\ output.persist # << >>
    /\ Len(input.fields) = 2 /\ input.fields[1].ident = "id"
    /\ input.cache.id_func = << >> /\ input.persist.id_func = << >>
    /\ input.persist.id_field = << >>
    /\ CacheImpl.cache_id = "my_id"
    /\ PersistImpl.collection_id = "my_id"
    /\ PersistImpl.collection_id_field = "my_id"
    /\ \E p \in SeqProcs :
        /\ op[p] = "Cache::put"
        /\ arg[p].value[1]["id"] # arg[p].value[1]["my_id"]
        /\ cache[CacheImpl.cache_path \o ":" \o arg[p].value[1]["my_id"]].shape = "Data"

(* ------------- claims about calls that run concurrently ---------------- *)

\* Call j is a fetch_by_id_cached(id) issued after the delete_cached(id) of
\* call i returned success, with no add of any kind issued in between.
FetchAfterDelete(i, j) ==
    /\ i < j
    /\ hist[i].op = "delete_cached" /\ hist[i].done /\ hist[i].ret = Ok(<< >>)
    /\ FetchCachedOf(hist[j], hist[i].arg.id)
    /\ \A k \in (i + 1)..(j - 1) : hist[k].op \notin {"add", "add_cached"}

BothUpdated(p, q) ==
    /\ p # q
    /\ pc[p] = "idle" /\ pc[q] = "idle"
    /\ op[p] = "update_cached" /\ op[q] = "update_cached"
    /\ arg[p].id = arg[q].id
    /\ ret[p].kind = "Ok" /\ ret[p].val # << >>
    /\ ret[q].kind = "Ok" /\ ret[q].val # << >>

\* C22 as stated: when update_cached calls on the same stored id have all
\* completed successfully and none is in flight, the cache entry of the id
\* equals the store record.
C22_CacheEqualsStore ==
    \A p, q \in Procs :
        (BothUpdated(p, q) /\ cache[cache_key(arg[p].id)].shape = "Data")
        => /\ find_one(store, collection_id_field, arg[p].id) # << >>
           /\ cache[cache_key(arg[p].id)].data
                = to_vec(find_one(store, collection_id_field, arg[p].id)[1])

\* C22 amended: when update_cached calls on the same stored id have all
\* completed successfully and none is in flight, the cache entry of the id,
\* unless it has expired, is the record one of them returned: the one whose
\* put reached the cache last, whether or not its re-read followed the last
\* store write.
C22_CacheFromOneUpdate ==
    \A p, q \in Procs :
        (BothUpdated(p, q) /\ cache[cache_key(arg[p].id)].shape = "Data")
        => \/ cache[cache_key(arg[p].id)].data = to_vec(ret[p].val[1])
           \/ cache[cache_key(arg[p].id)].data = to_vec(ret[q].val[1])

\* Two update_cached calls that returned different records: the cache holds
\* the one and the store the other.
C22_Witness ==
    \E p, q \in Procs :
        /\ BothUpdated(p, q)
        /\ ret[p] # ret[q]
        /\ cache[cache_key(arg[p].id)].shape = "Data"
        /\ cache[cache_key(arg[p].id)].data = to_vec(ret[p].val[1])
        /\ find_one(store, collection_id_field, arg[p].id) = ret[q].val

(* --------------------- claims about failing calls ---------------------- *)

\* The error a failing round trip gives: the store's or the cache's.
ErrorOf(call) ==
    IF call \in CacheCalls THEN Err("RedisError") ELSE Err("DatabaseError")

\* The step in which a round trip of p fails ends p's operation with that
\* error and changes neither store nor cache.
C23_FailureEnds ==
    \A p \in Procs :
        (Acting(p) /\ ~Last(calls'[p]).ok) =>
            /\ pc'[p] = "idle"
            /\ ret'[p] = ErrorOf(Last(calls'[p]).call)
            /\ store' = store /\ cache' = cache

\* A failed round trip is the last one of its operation, and the operation
\* has returned its error.
C23_FailureIsLast ==
    \A p \in Procs :
        \A i \in 1..Len(calls[p]) :
            ~calls[p][i].ok =>
                /\ i = Len(calls[p])
                /\ pc[p] = "idle"
                /\ ret[p] = ErrorOf(calls[p][i].call)

\* C23: the first failing adapter call aborts a DataServices operation: the
\* operation makes no further adapter call, no retry, compensation or
\* fallback, and returns that error; a failing cache read in
\* fetch_by_id_cached returns the error without reading the store.
C23_FirstFailureAborts == [][C23_FailureEnds]_vars /\ []C23_FailureIsLast

\* A fetch_by_id_cached of a stored id whose cache read failed: it returned
\* the cache's error after that one call.
C23_Witness ==
    \E p \in Procs :
        /\ op[p] = "fetch_by_id_cached" /\ pc[p] = "idle"
        /\ calls[p] = <<[call |-> "cache.get", ok |-> FALSE]>>
        /\ ret[p] = Err("RedisError")
        /\ find_one(store, collection_id_field, arg[p].id) # << >>

(* ------------------- claims about the uncached calls ------------------- *)

\* Call i is an uncached call that has returned.
UncachedCall(i) == hist[i].done /\ hist[i].op \in Uncached

\* Call i made no cache round trip, and the cache it leaves is the cache it
\* found, but for the time that passed.
CacheUntouched(i) ==
    /\ \A n \in 1..Len(hist[i].calls) : hist[i].calls[n].call \notin CacheCalls
    /\ hist[i].postCache = elapse(hist[i].preCache, hist[i].ticks * TickSeconds)

\* Calls i, i + 1, j are add_cached(R), an uncached delete or update of R.id,
\* and a later fetch_by_id_cached(R.id), with uncached calls only in between.
StoreChangedBehindCache(i, j) ==
    /\ i + 1 < j
    /\ hist[i].op = "add_cached" /\ hist[i].done /\ hist[i].ret.kind = "Ok"
    /\ hist[i + 1].op \in {"delete", "update"} /\ hist[i + 1].done
    /\ hist[i + 1].arg.id = collection_id(hist[i].arg.value[1])
    /\ FetchCachedOf(hist[j], hist[i + 1].arg.id)
    /\ OnlyUncachedBetween(i, j)

\* C24: add, fetch_by_id, fetch, update and delete never read or modify the
\* cache: after add_cached(R) and an uncached delete(R.id) or update(R.id, ..)
\* the entry of R is unchanged, and fetch_by_id_cached(R.id) returns the old R
\* until the entry expires or is rewritten.
C24_UncachedLeavesCache ==
    /\ \A i \in 1..Len(hist) : UncachedCall(i) => CacheUntouched(i)
    /\ \A i, j \in 1..Len(hist) :
        (StoreChangedBehindCache(i, j) /\ Live(hist[j], cache_key(hist[j].arg.id)))
        => /\ hist[i + 1].postCache[cache_key(hist[j].arg.id)].data
                = hist[i + 1].preCache[cache_key(hist[j].arg.id)].data
           /\ hist[j].ret = Ok(hist[i].arg.value)

\* add_cached(R), an uncached update that changes the stored record, and a
\* fetch_by_id_cached that returns the old R, not the stored record.
C24_Witness ==
    \E i, j \in 1..Len(hist) :
        /\ StoreChangedBehindCache(i, j)
        /\ hist[i + 1].op = "update"
        /\ hist[i + 1].postStore # hist[i + 1].preStore
        /\ hist[j].ret = Ok(hist[i].arg.value)
        /\ hist[j].ret.val # find_one(hist[j].preStore, collection_id_field, hist[j].arg.id)

(* ----------------------- claims about DB::update ----------------------- *)

\* Call i is an update of a record the store holds.
UpdateOfExisting(i) ==
    /\ hist[i].op = "update" /\ hist[i].done
    /\ find_one(hist[i].preStore, collection_id_field, hist[i].arg.id) # << >>

\* The place in the collection of the record call i updates.
Updated(i) == Min(Matches(hist[i].preStore, collection_id_field, hist[i].arg.id))

\* Call i set the named field of the record with its id and changed nothing
\* else: not another field of it, not another record.
SetsOneField(i) ==
    /\ Len(hist[i].postStore) = Len(hist[i].preStore)
    /\ SetOf(hist[i].postStore[Updated(i)], hist[i].preStore[Updated(i)],
             hist[i].arg.ukey, hist[i].arg.uval)
    /\ \A n \in DOMAIN hist[i].preStore :
            n # Updated(i) => hist[i].postStore[n] = hist[i].preStore[n]

\* Call i returned the record it updated, as stored after the update.
ReturnsUpdated(i) ==
    /\ hist[i].ret = Ok(<<hist[i].postStore[Updated(i)]>>)
    /\ hist[i].ret.val[1][hist[i].arg.ukey] = hist[i].arg.uval

\* C25: update(id, field, value) sets exactly the named field of the record
\* with that id, leaves every other field and record unchanged, and returns
\* the stored record after the update, with field equal to value.
C25_UpdateSetsAndReturns ==
    \A i \in 1..Len(hist) :
        UpdateOfExisting(i) => SetsOneField(i) /\ ReturnsUpdated(i)

\* C25 amended: update sets exactly the named field and leaves the rest
\* unchanged; it returns what a read by the given id finds after the update:
\* the updated record when the field is not the id field, and nothing when
\* the update gave the only record of that id another id.
C25_UpdateSetsAndRereads ==
    \A i \in 1..Len(hist) :
        UpdateOfExisting(i) =>
            /\ SetsOneField(i)
            /\ hist[i].ret = Ok(find_one(hist[i].postStore, collection_id_field, hist[i].arg.id))
            /\ hist[i].arg.ukey # collection_id_field => ReturnsUpdated(i)
            /\ (/\ hist[i].arg.ukey = collection_id_field
                /\ hist[i].arg.uval # hist[i].arg.id
                /\ Cardinality(Matches(hist[i].preStore, collection_id_field,
                                       hist[i].arg.id)) = 1)
               => hist[i].ret = Ok(<< >>)

\* An update that changes a field of one of two stored records and returns
\* the changed record.
C25_Witness ==
    \E i \in 1..Len(hist) :
        /\ UpdateOfExisting(i)
        /\ Len(hist[i].preStore) = 2
        /\ hist[i].postStore # hist[i].preStore
        /\ hist[i].arg.ukey # collection_id_field
        /\ ReturnsUpdated(i)

(* ------------------ claims about undecodable entries ------------------- *)

\* The key of p's Cache::fetch holds bytes that encode no record.
Undecodable(p) ==
    /\ Fetched(p)
    /\ cache[cache_key(arg[p].id)].shape = "Data"
    /\ \A r \in AllRecords : cache[cache_key(arg[p].id)].data # to_vec(r)

\* C26: a cache entry whose bytes cannot be deserialized makes Cache::fetch,
\* and so fetch_by_id_cached, return a GeneralError, the serde_json cause
\* discarded; the store is not consulted and the entry stays in the cache.
C26_BadEntryIsGeneralError ==
    \A p \in SeqProcs :
        Undecodable(p) =>
            /\ ret[p] = Err("GeneralError")
            /\ calls[p] = <<[call |-> "cache.get", ok |-> TRUE]>>

(* ------------------------ claims about DB::fetch ----------------------- *)

\* Call i is a fetch given a filter field without a value or a value without
\* a field, on a collection that holds records.
HalfFilteredFetch(i) ==
    /\ hist[i].op = "fetch" /\ hist[i].done
    /\ (hist[i].arg.key = << >>) # (hist[i].arg.fval = << >>)
    /\ hist[i].preStore # << >>

\* C27: fetch accepts one field/value pair or none: a call that gives a
\* field without a value, or a value without a field, is not answered with
\* the unfiltered listing of the collection.
C27_HalfFilterIsNoListing ==
    \A i \in 1..Len(hist) :
        HalfFilteredFetch(i) => hist[i].ret # Ok(hist[i].preStore)

(* ---------------------- claims about key agreement --------------------- *)

\* The id by which the store knows a value of the derived type, the one a
\* caller passes to fetch_by_id_cached and delete_cached: value.collection_id().
StoreId(value) == value[PersistImpl.collection_id]

\* C28: for every record R of every cacheable, persistable type, the key
\* under which put(R) writes is the key fetch_by_id_cached and delete_cached
\* compute from R's store id, so the entry written is the one they read and
\* remove.
C28_KeyAgreement ==
    (output.cache # << >> /\ output.persist # << >>) =>
        \A p \in SeqProcs :
            op[p] = "Cache::put" =>
                LET value == arg[p].value[1]
                    key == Cache_key_of(CacheImpl, StoreId(value))
                IN  /\ cache[key].shape = "Data"
                    /\ cache[key].data = to_vec_fields(input.fields, value, 1)

=============================================================================
